---- MODULE Spec2Model ----
(***************************************************************************)
(* A model of strongmotionfetch: the catalog matchers (europe.get_emsc,    *)
(* GeoNetRetriever._check_catalog) and their catalog queries, the          *)
(* Retriever.getData pipeline, the amplitude table assembly                *)
(* (Retriever.traceToAmps, Retriever._get_peaks), the ShakeMap XML codec   *)
(* (Retriever.ampsToXML / Retriever.xmlToAmps), the GeoNet component names *)
(* (get_comp_name) and the FTP download of GeoNetRetriever.fetch.          *)
(*                                                                         *)
(* Conventions.                                                            *)
(*  - Library names a file uses without importing them (datetime, json,    *)
(*    np, gps2dist_azimuth, Retriever in europe.py; np in retriever.py)    *)
(*    are taken to be bound to the libraries they name, and the names      *)
(*    depth, DDEPTH, magnitude, DMAG of europe.py:28-31, whose values      *)
(*    get_emsc never uses, to be bound as well.                            *)
(*  - Times are integer seconds; a catalog event carries its signed offset *)
(*    "off" to the report time and its distance "dd" to the report         *)
(*    coordinates (the value gps2dist_azimuth returns), a natural number.  *)
(*    GeoNetRetriever.fetch, which formats its times, takes them as        *)
(*    calendar datetimes to the second.                                    *)
(*  - A floating-point quotient is kept as an exact fraction a/b, or as    *)
(*    NaN / inf where numpy's division produces them.  np.sqrt is          *)
(*    monotone, so a score is kept as its square.                          *)
(***************************************************************************)
EXTENDS Integers, Sequences, FiniteSets, TLC

VARIABLES
    emscIn,     \* get_emsc: what urlopen/read give for the query
    emscOut,    \* get_emsc: its return value or the exception it raises
    dsq,        \* get_emsc: the array dsq of line 91 (<<>> when not computed)
    geoIn,      \* _check_catalog: arguments and what urlopen/read give
    geoOut,     \* _check_catalog: its return value or the exception
    amps,       \* the amplitude table (DataFrame) given to ampsToXML
    xmlstr,     \* what ampsToXML returned: the document, or its error
    decoded,    \* what xmlToAmps returned: a table, or its error
    calib,      \* Retriever._parser and Retriever._resp
    traces,     \* the Trace objects handed to traceToAmps (mutable)
    given,      \* the traces as they were when traceToAmps was called
    ttaOut,     \* what traceToAmps returned: the rows, or its error
    pipeIn,     \* getData: the retriever class, the format, the environment
    pipeOut,    \* getData: the stages run, the file written, the outcome
    pkTrace,    \* the Trace object handed to _get_peaks (mutable)
    pkOut,      \* what _get_peaks returned or raised, and what it did on the way
    qryIn,      \* a catalog search: the retriever, timewindow, the catalog
    qryOut,     \* the interval the search asked for and the events it considers
    compIn,     \* get_comp_name: the component string of a GeoNet header
    compOut,    \* get_comp_name: the channel name, or the exception
    fetchIn,    \* GeoNetRetriever.fetch: limit, and what the FTP server holds
    ftp,        \* the FTP session: its state and its remote working directory
    local,      \* the process: position in fetch, os.getcwd(), _datafiles
    fetchOut    \* what fetch returned or raised

catalogVars == <<emscIn, emscOut, dsq, geoIn, geoOut>>
codecVars == <<amps, xmlstr, decoded>>
reduceVars == <<calib, traces, given, ttaOut>>
pipeVars == <<pipeIn, pipeOut>>
peaksVars == <<pkTrace, pkOut>>
queryVars == <<qryIn, qryOut>>
compVars == <<compIn, compOut>>
fetchVars == <<fetchIn, ftp, local, fetchOut>>

vars == <<emscIn, emscOut, dsq, geoIn, geoOut, amps, xmlstr, decoded,
          calib, traces, given, ttaOut, pipeIn, pipeOut, pkTrace, pkOut,
          qryIn, qryOut, compIn, compOut, fetchIn, ftp, local, fetchOut>>

(***************************** bounds **************************************)
MaxCands == 3      \* catalog candidates in one response
MaxDt == 2         \* largest |time offset| of a candidate, seconds
MaxDd == 2         \* largest distance of a candidate
MaxLines == 2      \* lines after the header line in a GeoNet CSV response
MaxRows == 2       \* records of an amplitude table
MaxTraces == 3     \* traces handed to traceToAmps
SeriesLen == 3     \* samples of a trace
MaxAmp == 1        \* largest raw sample
MaxStations == 2   \* station elements of a document given to xmlToAmps
MaxFew == 2        \* candidates in a response of the short-response specification
MaxVolumes == 2    \* entries of the event folder on the FTP server
MaxLimit == 2      \* largest limit given to GeoNetRetriever.fetch

(***************************** helpers *************************************)
Abs(x) == IF x < 0 THEN -x ELSE x

Range(s) == {s[i] : i \in 1..Len(s)}

\* the sequences over S of length at most n
SeqsUpTo(S, n) == UNION {[1..k -> S] : k \in 0..n}

MaxOf(S) == CHOOSE m \in S : \A x \in S : x <= m

(************************ floating-point values ****************************)
NaN == [k |-> "nan", a |-> 0, b |-> 1]
Inf == [k |-> "inf", a |-> 0, b |-> 1]
Num(a, b) == [k |-> "num", a |-> a, b |-> b]

\* numpy true division of a non-negative number by a non-negative number
TrueDivide(x, m) ==
    IF m = 0 THEN (IF x = 0 THEN NaN ELSE Inf) ELSE Num(x, m)

\* u**2 + v**2 under np.sqrt, kept squared
SqrtSumSq(u, v) ==
    IF u.k = "nan" \/ v.k = "nan" THEN NaN
    ELSE IF u.k = "inf" \/ v.k = "inf" THEN Inf
    ELSE Num(u.a * u.a * v.b * v.b + v.a * v.a * u.b * u.b, u.b * u.b * v.b * v.b)

\* x < y on floating-point values (every comparison with NaN is false)
FLess(x, y) ==
    IF x.k = "nan" \/ y.k = "nan" THEN FALSE
    ELSE IF x.k = "inf" THEN FALSE
    ELSE IF y.k = "inf" THEN TRUE
    ELSE x.a * y.b < y.a * x.b

\* numpy argmin: the first NaN if there is one, else the first minimum
ArgMin(arr) ==
    IF \E i \in 1..Len(arr) : arr[i].k = "nan"
    THEN CHOOSE i \in 1..Len(arr) :
            arr[i].k = "nan" /\ \A j \in 1..(i - 1) : arr[j].k # "nan"
    ELSE CHOOSE i \in 1..Len(arr) :
            /\ \A j \in 1..Len(arr) : ~FLess(arr[j], arr[i])
            /\ \A j \in 1..(i - 1) : FLess(arr[i], arr[j])

(****************************** get_emsc ***********************************)
\* timedelta.seconds of a non-negative difference: the days are dropped
TimedeltaSeconds(d) == d % 86400

\* lines 75-78: dt of one feature
EmscDt(ev) == TimedeltaSeconds(Abs(ev.off))

\* lines 87-91: the normalized joint score of every feature
EmscScores(features) ==
    LET n == Len(features)
        dtimes == [i \in 1..n |-> EmscDt(features[i])]
        ddist == [i \in 1..n |-> features[i].dd]
        mt == MaxOf(Range(dtimes))
        md == MaxOf(Range(ddist))
    IN  [i \in 1..n |->
            SqrtSumSq(TrueDivide(dtimes[i], mt), TrueDivide(ddist[i], md))]

Pending == [kind |-> "pending", idx |-> 0, err |-> ""]
Returns(kind, idx) == [kind |-> kind, idx |-> idx, err |-> ""]
Raises(err) == [kind |-> "raise", idx |-> 0, err |-> err]

\* get_emsc, lines 40-94, as a function of the response
get_emsc(resp) ==
    IF resp.transport = "fail" THEN Raises("URLError")
    ELSE IF resp.body = "blank" THEN Returns("None", 0)
    ELSE IF resp.body = "garbage" THEN Raises("JSONDecodeError")
    ELSE IF Len(resp.features) = 1 THEN Returns("event", 1)
    ELSE IF Len(resp.features) = 0 THEN Raises("ValueError")
    ELSE Returns("event", ArgMin(EmscScores(resp.features)))

Candidates == [off : (-MaxDt)..MaxDt, dd : 0..MaxDd]

EmscResponsesUpTo(n) ==
    {[transport |-> "fail", body |-> "none", features |-> <<>>],
     [transport |-> "ok", body |-> "blank", features |-> <<>>],
     [transport |-> "ok", body |-> "garbage", features |-> <<>>]}
    \cup {[transport |-> "ok", body |-> "json", features |-> f] :
            f \in SeqsUpTo(Candidates, n)}

EmscResponses == EmscResponsesUpTo(MaxCands)

GetEmsc ==
    /\ emscOut.kind = "pending"
    /\ emscOut' = get_emsc(emscIn)
    /\ dsq' = IF emscIn.transport = "ok" /\ emscIn.body = "json"
                 /\ Len(emscIn.features) >= 2
              THEN EmscScores(emscIn.features) ELSE <<>>
    /\ UNCHANGED <<emscIn, geoIn, geoOut, codecVars, reduceVars, pipeVars, peaksVars, queryVars, compVars, fetchVars>>

(*************************** _check_catalog ********************************)
BlankLine == [k |-> "blank", off |-> 0, dd |-> 0]
HeaderLine == [k |-> "hdr", off |-> 0, dd |-> 0]
BadLine == [k |-> "bad", off |-> 0, dd |-> 0]
EventLines == {[k |-> "ev", off |-> o, dd |-> d] : o \in (-MaxDt)..MaxDt, d \in 0..MaxDd}

\* a filter that lets every event through
QualifiesAlways(nsecs, dd, timewindow, distwindow) == TRUE

\* a filter whose distance bound is inclusive
QualifiesWithin(nsecs, dd, timewindow, distwindow) == nsecs <= timewindow /\ dd <= distwindow

\* line 336: the events the matcher keeps
Qualifies(nsecs, dd, timewindow, distwindow) == nsecs <= timewindow /\ dd < distwindow

\* lines 320-339: the loop over lines[1:], from line i on; acc holds the
\* (vector, line index) pairs appended so far.  A line that cannot be parsed
\* raises inside the try block.
RECURSIVE CatalogLoop(_, _, _, _, _)
CatalogLoop(lines, i, timewindow, distwindow, acc) ==
    IF i > Len(lines) \/ lines[i].k = "blank" THEN [raised |-> FALSE, acc |-> acc]
    ELSE IF lines[i].k # "ev" THEN [raised |-> TRUE, acc |-> acc]
    ELSE LET nsecs == Abs(lines[i].off)
             dd == lines[i].dd
             keep == Qualifies(nsecs, dd, timewindow, distwindow)
         IN  CatalogLoop(lines, i + 1, timewindow, distwindow,
                 IF keep THEN Append(acc, [v |-> Num(nsecs * nsecs + dd * dd, 1), line |-> i])
                 ELSE acc)

\* vectors.index(min(vectors)): the first position of the minimum
IndexOfMin(acc) ==
    CHOOSE i \in 1..Len(acc) :
        /\ \A j \in 1..Len(acc) : ~FLess(acc[j].v, acc[i].v)
        /\ \A j \in 1..(i - 1) : FLess(acc[i].v, acc[j].v)

\* _check_catalog, lines 308-345; idx is the index in the response's lines of
\* the event whose (id, time) is returned
check_catalog(in) ==
    IF in.transport = "fail" THEN Raises("Could not access the GeoNet website")
    ELSE LET r == CatalogLoop(in.lines, 2, in.timewindow, in.distwindow, <<>>)
         IN  IF r.raised THEN Raises("Could not access the GeoNet website")
             ELSE IF Len(r.acc) > 0 THEN Returns("event", r.acc[IndexOfMin(r.acc)].line)
             ELSE Returns("None", 0)

\* data.split('\n'): an empty body is the single line ''
GeoBodies ==
    {<<BlankLine>>}
    \cup {<<HeaderLine>> \o rest :
            rest \in SeqsUpTo(EventLines \cup {BlankLine, BadLine}, MaxLines)}

GeoRequests ==
    [transport : {"ok"}, lines : GeoBodies,
     timewindow : {MaxDt - 1, MaxDt}, distwindow : {MaxDd, MaxDd + 1}]
    \cup [transport : {"fail"}, lines : {<<BlankLine>>},
          timewindow : {MaxDt}, distwindow : {MaxDd}]

CheckCatalog ==
    /\ geoOut.kind = "pending"
    /\ geoOut' = check_catalog(geoIn)
    /\ UNCHANGED <<emscIn, emscOut, dsq, geoIn, codecVars, reduceVars, pipeVars, peaksVars, queryVars, compVars, fetchVars>>

(***************************** the catalog search **************************)
\* What each matcher asks its catalog for, and which of the cataloged events
\* it then considers.  An event is its signed offset to the report time, in
\* seconds; only events inside the search radius are listed here.
EmscWindow == 20      \* europe.py:26-27, timedelta(seconds=20)
NZCATWINDOW == 300    \* geonet.py:24, 5*60

QueryOffsets == {-301, -21, -15, 0, 15, 20, 300, 350}

QueryInputs ==
    [retriever : {"europe", "geonet"}, timewindow : {10, 20, 60, 400},
     catalog : SUBSET QueryOffsets]

\* europe.py:26-27 and geonet.py:308-309: the start and end of the query,
\* relative to the report time
QueryInterval(in) ==
    IF in.retriever = "europe" THEN [lo |-> -EmscWindow, hi |-> EmscWindow]
    ELSE [lo |-> -NZCATWINDOW, hi |-> NZCATWINDOW]

\* what the catalog service lists for the interval
Listed(in) == {e \in in.catalog : QueryInterval(in).lo <= e /\ e <= QueryInterval(in).hi}

\* the listed events the matcher can return: get_emsc takes them all
\* (europe.py:46-91), _check_catalog those of geonet.py:336
Considered(in) ==
    IF in.retriever = "europe" THEN Listed(in)
    ELSE {e \in Listed(in) : Abs(e) <= in.timewindow}

catalog_query(in) ==
    [kind |-> "done", lo |-> QueryInterval(in).lo, hi |-> QueryInterval(in).hi,
     listed |-> Listed(in), considered |-> Considered(in)]

CatalogQuery ==
    /\ qryOut.kind = "pending"
    /\ qryOut' = catalog_query(qryIn)
    /\ UNCHANGED <<catalogVars, codecVars, reduceVars, pipeVars, peaksVars, qryIn, compVars, fetchVars>>

(************************ Python values and text ***************************)
\* A text is a sequence of one-character strings.  A float is kept in tenths
\* (327 is 32.7); NaN and None are values of their own.
PStr(s) == [t |-> "str", n |-> 0, s |-> s]
PFloat(n) == [t |-> "float", n |-> n, s |-> <<>>]
PNaN == [t |-> "nan", n |-> 0, s |-> <<>>]
PNone == [t |-> "none", n |-> 0, s |-> <<>>]

DigitChars == <<"0", "1", "2", "3", "4", "5", "6", "7", "8", "9">>
IsDigit(c) == c \in Range(DigitChars)
DigitVal(c) == CHOOSE d \in 0..9 : DigitChars[d + 1] = c

RECURSIVE FormatNat(_)
FormatNat(n) ==
    IF n < 10 THEN <<DigitChars[n + 1]>>
    ELSE Append(FormatNat(n \div 10), DigitChars[(n % 10) + 1])

\* str() of a float: sign, integer part, point, fraction
FormatFloat(n) ==
    (IF n < 0 THEN <<"-">> ELSE <<>>)
        \o FormatNat(Abs(n) \div 10) \o <<".">> \o <<DigitChars[(Abs(n) % 10) + 1]>>

\* the text of an attribute value, as the Tag renders it (str())
Str(v) ==
    CASE v.t = "str" -> v.s
      [] v.t = "float" -> FormatFloat(v.n)
      [] v.t = "nan" -> <<"n", "a", "n">>
      [] OTHER -> <<"N", "o", "n", "e">>

RECURSIVE ParseNat(_, _)
ParseNat(txt, acc) ==
    IF txt = <<>> THEN acc ELSE ParseNat(Tail(txt), acc * 10 + DigitVal(Head(txt)))

ParseFailed == [ok |-> FALSE, v |-> PNaN]

\* float(text): "nan", or [-]digits[.digit]; anything else is a ValueError
ParseFloat(txt) ==
    IF txt = <<"n", "a", "n">> THEN [ok |-> TRUE, v |-> PNaN]
    ELSE LET neg == txt # <<>> /\ Head(txt) = "-"
             body == IF neg THEN Tail(txt) ELSE txt
             dots == {i \in 1..Len(body) : body[i] = "."}
             ip == IF dots = {} THEN body ELSE SubSeq(body, 1, (CHOOSE i \in dots : TRUE) - 1)
             fp == IF dots = {} THEN <<>>
                   ELSE SubSeq(body, (CHOOSE i \in dots : TRUE) + 1, Len(body))
         IN  IF /\ Cardinality(dots) <= 1
                /\ ip # <<>>
                /\ Len(fp) <= 1
                /\ \A i \in 1..Len(ip) : IsDigit(ip[i])
                /\ \A i \in 1..Len(fp) : IsDigit(fp[i])
             THEN LET mag == ParseNat(ip, 0) * 10 + ParseNat(fp, 0)
                  IN  [ok |-> TRUE, v |-> PFloat(IF neg THEN -mag ELSE mag)]
             ELSE ParseFailed

(***************************** the amplitude table *************************)
StringFields == {"netid", "name", "code", "loc", "source", "insttype", "commtype"}
FloatFields == {"lat", "lon", "dist", "intensity"}

\* the spectral column names of the default periods [0.3, 1.0, 3.0]
PsaNames == {"psa03", "psa10", "psa30"}

\* columns.str.startswith('psa')
IsPsaColumn(c) == c \in PsaNames

(******************************* ampsToXML *********************************)
\* amps['code'].unique(): the codes in order of first appearance
RECURSIVE UniqueCodes(_, _)
UniqueCodes(rows, seen) ==
    IF rows = <<>> THEN seen
    ELSE UniqueCodes(Tail(rows),
            IF Head(rows).code \in Range(seen) THEN seen ELSE Append(seen, Head(rows).code))

\* amps[amps['code'] == code]
RowsOf(rows, code) == SelectSeq(rows, LAMBDA r : r.code = code)

\* line 266: the psa columns, in column order
PsaCols(cols) == SelectSeq(cols, IsPsaColumn)

\* line 267
ImtList(cols) == <<"pga", "pgv">> \o PsaCols(cols)

\* lines 300-306: the comp elements of one row, one per measure column the
\* row has
CompsOfRow(row, cols) ==
    LET imts == SelectSeq(ImtList(cols), LAMBDA m : m \in Range(cols))
    IN  [i \in 1..Len(imts) |->
            [name |-> imts[i], child |-> imts[i], value |-> Str(row[imts[i]]),
             flag |-> <<"0">>]]

RECURSIVE CompsOfRows(_, _)
CompsOfRows(rows, cols) ==
    IF rows = <<>> THEN <<>> ELSE CompsOfRow(Head(rows), cols) \o CompsOfRows(Tail(rows), cols)

\* lines 286-307: the station element of one code; its attributes are those
\* of the first row with that code
StationTag(rows, cols, code) ==
    LET mine == RowsOf(rows, code)
        first == mine[1]
    IN  [atts |-> [f \in StringFields \cup FloatFields |->
                      Str(first[f])],
         comps |-> CompsOfRows(mine, cols)]

\* ampsToXML, lines 265-312: the document, or the error of line 312 when
\* save is false (xmlstr is assigned only under "if save")
ampsToXML(table, save) ==
    LET codes == UniqueCodes(table.rows, <<>>)
    IN  IF save
        THEN [kind |-> "xml",
              stations |-> [i \in 1..Len(codes) |-> StationTag(table.rows, table.cols, codes[i])]]
        ELSE [kind |-> "raise", stations |-> <<>>]

(******************************* xmlToAmps *********************************)
\* lines 325-333: the measure names of every comp of the document
DocImts(doc) ==
    UNION {{doc.stations[i].comps[j].child : j \in 1..Len(doc.stations[i].comps)} :
             i \in 1..Len(doc.stations)}

\* lines 343-347: a float attribute, NaN when it does not parse
FloatAttr(txt) == IF ParseFloat(txt).ok THEN ParseFloat(txt).v ELSE PNaN

\* lines 350-355: the comps of one station written into the row dictionary;
\* float() of a value that does not parse raises
RECURSIVE ReadComps(_, _)
ReadComps(comps, row) ==
    IF comps = <<>> THEN [ok |-> TRUE, row |-> row]
    ELSE LET c == Head(comps)
             p == ParseFloat(c.value)
         IN  IF ~p.ok THEN [ok |-> FALSE, row |-> row]
             ELSE ReadComps(Tail(comps),
                     [k \in (DOMAIN row) \cup {c.child} |-> IF k = c.child THEN p.v ELSE row[k]])

\* lines 338-356: the loop over the station elements; row is the dictionary
\* of line 337, which lives across the iterations
RECURSIVE ReadStations(_, _, _, _)
ReadStations(stations, imts, row, out) ==
    IF stations = <<>> THEN [ok |-> TRUE, rows |-> out]
    ELSE LET st == Head(stations)
             withAtts == [k \in (DOMAIN row) \cup StringFields \cup FloatFields |->
                            IF k \in StringFields THEN PStr(st.atts[k])
                            ELSE IF k \in FloatFields THEN FloatAttr(st.atts[k])
                            ELSE row[k]]
             r == ReadComps(st.comps, withAtts)
         IN  IF ~r.ok THEN [ok |-> FALSE, rows |-> out]
             ELSE ReadStations(Tail(stations), imts, r.row,
                     Append(out, [k \in StringFields \cup FloatFields \cup imts |->
                                    IF k \in DOMAIN r.row THEN r.row[k] ELSE PNaN]))

\* xmlToAmps, lines 322-359
xmlToAmps(doc) ==
    LET imts == DocImts(doc)
        r == ReadStations(doc.stations, imts, <<>>, <<>>)
    IN  IF r.ok THEN [kind |-> "table", cols |-> imts, rows |-> r.rows]
        ELSE [kind |-> "raise", cols |-> {}, rows |-> <<>>]

(************************ codec inputs and actions **************************)
StrProfiles ==
    {[netid |-> <<"N", "Z">>, name |-> <<"m", "1">>, loc |-> <<"x">>, source |-> <<"N", "Z">>,
      insttype |-> <<"O">>, commtype |-> <<"D", "I", "G">>],
     [netid |-> <<"s">>, name |-> <<"m", "2">>, loc |-> <<"y">>, source |-> <<"s">>,
      insttype |-> <<"U">>, commtype |-> <<"U", "N", "K">>]}

\* intensity is '' in a row of traceToAmps (line 231), a number in the test
FloatProfiles ==
    {[lat |-> PFloat(327), lon |-> PFloat(-1456), dist |-> PFloat(236), intensity |-> PFloat(47)],
     [lat |-> PFloat(-376), lon |-> PFloat(1796), dist |-> PFloat(0), intensity |-> PStr(<<>>)]}

StationCodes == {<<"A">>, <<"B">>}

\* a measure is a number, NaN, or None (line 504)
ImtValues == {PFloat(5), PFloat(121), PNaN, PNone}

ColumnChoices == {<<>>, <<"pga">>, <<"pga", "pgv">>, <<"pgv", "psa10">>}

AmpRows(cols) ==
    {[k \in StringFields \cup FloatFields \cup Range(cols) |->
        IF k = "code" THEN PStr(code)
        ELSE IF k \in StringFields THEN PStr(sp[k])
        ELSE IF k \in FloatFields THEN fp[k]
        ELSE vals[k]] :
        code \in StationCodes, sp \in StrProfiles, fp \in FloatProfiles,
        vals \in [Range(cols) -> ImtValues]}

AmpTables ==
    UNION {[cols : {cols}, rows : SeqsUpTo(AmpRows(cols), MaxRows)] : cols \in ColumnChoices}

NoDoc == [kind |-> "pending", stations |-> <<>>]
NoTable == [kind |-> "pending", cols |-> {}, rows |-> <<>>]

AmpsToXML ==
    /\ xmlstr.kind = "pending"
    /\ decoded.kind = "pending"
    /\ \E save \in BOOLEAN : xmlstr' = ampsToXML(amps, save)
    /\ UNCHANGED <<catalogVars, amps, decoded, reduceVars, pipeVars, peaksVars, queryVars, compVars, fetchVars>>

XmlToAmps ==
    /\ xmlstr.kind = "xml"
    /\ decoded.kind = "pending"
    /\ decoded' = xmlToAmps(xmlstr)
    /\ UNCHANGED <<catalogVars, amps, xmlstr, reduceVars, pipeVars, peaksVars, queryVars, compVars, fetchVars>>

(************************** documents to decode *****************************)
\* xmlToAmps takes any stationlist document, not only those ampsToXML wrote:
\* an attribute may hold a number, nothing, or the text of None.
DocFloatTexts ==
    {[lat |-> <<"3", "2", ".", "7">>, lon |-> <<"-", "1", "4", "5", ".", "6">>,
      dist |-> <<"2", "3", ".", "6">>, intensity |-> <<"4", ".", "7">>],
     [lat |-> <<>>, lon |-> <<"1", "7", "9", ".", "6">>,
      dist |-> <<"N", "o", "n", "e">>, intensity |-> <<>>]}

DocStrTexts ==
    [netid |-> <<"N", "Z">>, name |-> <<"m", "1">>, loc |-> <<"x">>, source |-> <<"N", "Z">>,
     insttype |-> <<"O">>, commtype |-> <<"D", "I", "G">>]

\* a comp element with one measure child
DocComps ==
    {[name |-> m, child |-> m, value |-> v, flag |-> <<"0">>] :
        m \in {"pga", "pgv"}, v \in {<<"0", ".", "5">>, <<>>, <<"N", "o", "n", "e">>}}

DocStations ==
    {[atts |-> [f \in StringFields \cup FloatFields |->
                  IF f = "code" THEN code
                  ELSE IF f \in StringFields THEN DocStrTexts[f] ELSE ft[f]],
      comps |-> comps] :
        code \in StationCodes, ft \in DocFloatTexts, comps \in SeqsUpTo(DocComps, 2)}

Documents == [kind : {"xml"}, stations : SeqsUpTo(DocStations, MaxStations)]

(****************************** traceToAmps ********************************)
\* Samples are integers and the sampling interval is 1.  The corrections of
\* _get_peaks (detrend, taper, filter: ObsPy) are library calls that rewrite
\* trace.data in place; their result is any series the last two calls, a
\* linear and a mean detrend, can leave: zero sum, zero linear trend, and
\* all zero when the input is all zero.  The rows of traceToAmps carry pga
\* and pgv; the spectral columns are modelled with _get_peaks below.
RawSeries == [1..SeriesLen -> 0..MaxAmp]
CorrectedSamples == (-(2 * MaxAmp))..(2 * MaxAmp)

RECURSIVE SumTo(_, _)
SumTo(f, n) == IF n = 0 THEN 0 ELSE f[n] + SumTo(f, n - 1)

AllZero(d) == \A i \in 1..Len(d) : d[i] = 0

\* lines 472-478: what the in-place corrections can leave in trace.data
CorrectionOutcomes(d) ==
    {c \in [1..Len(d) -> CorrectedSamples] :
        /\ SumTo(c, Len(d)) = 0
        /\ SumTo([i \in 1..Len(d) |-> i * c[i]], Len(d)) = 0
        /\ AllZero(d) => AllZero(c)}

\* abs(trace.max()): the largest magnitude of the samples
MaxAbs(d) == MaxOf({Abs(d[i]) : i \in 1..Len(d)})

\* Trace.integrate() (cumulative trapezoid, first value 0), doubled so that
\* it stays an integer
Integrate2(d) == [i \in 1..Len(d) |-> SumTo([k \in 1..Len(d) |-> IF k = 1 THEN 0 ELSE d[k - 1] + d[k]], i)]

\* _get_pgv, lines 507-522, on the data the trace holds when it is called
get_pgv(units, data) ==
    IF units = "vel" THEN Num(MaxAbs(data), 1) ELSE Num(MaxAbs(Integrate2(data)), 2)

\* _get_peaks, lines 466-497, for an acceleration trace whose data the
\* corrections have rewritten to corrected: pga in %g (divided by 0.0981)
get_peaks(units, corrected) ==
    [pga |-> Num(MaxAbs(corrected) * 10000, 981), pgv |-> get_pgv(units, corrected)]

\* _getStationMetadata, lines 388-402, without a parser: the coordinates come
\* from the trace or the call raises
MetadataRaises(trace) == calib.parser = "None" /\ ~trace.coords

\* _calibrateTrace, lines 442-457, without a parser: a trace that is not
\* acceleration needs a RESP file (seedresp), and there is none
CalibrateRaises(trace) == calib.parser = "None" /\ trace.units # "acc" /\ calib.resp = "None"

\* the first trace of the loop of line 215 at which an exception is raised
\* (Len + 1: none)
FirstRaise(trs) ==
    LET bad == {i \in 1..Len(trs) : MetadataRaises(trs[i]) \/ CalibrateRaises(trs[i])}
    IN  IF bad = {} THEN Len(trs) + 1 ELSE CHOOSE i \in bad : \A j \in bad : i <= j

\* lines 216-234: the row of one trace
RowOf(trace, corrected) ==
    [station |-> trace.station, peaks |-> get_peaks(trace.units, corrected)]

Traces == [units : {"acc", "vel"}, coords : BOOLEAN, data : RawSeries, station : {"S1"}]

\* traces of two stations that carry their coordinates, silent or with one
\* pulse as their last sample
OrderTraces ==
    [units : {"acc", "vel"}, coords : {TRUE}, station : {"S1", "S2"},
     data : {[i \in 1..SeriesLen |-> 0], [i \in 1..SeriesLen |-> IF i = SeriesLen THEN MaxAmp ELSE 0]}]

\* the corrections of every raw series, computed once: CorrectionOutcomes(d)
\* depends on d only through its length and through AllZero(d)
SilentOutcomes == {c : c \in CorrectionOutcomes([i \in 1..SeriesLen |-> 0])}
SoundingOutcomes == {c : c \in CorrectionOutcomes([i \in 1..SeriesLen |-> MaxAmp])}
OutcomesOf == [d \in RawSeries |-> IF AllZero(d) THEN SilentOutcomes ELSE SoundingOutcomes]

\* what the corrections leave of the data of trace n, given what they left
\* of the traces before it: the library calls are functions of the samples,
\* so a series already corrected in this call is corrected the same way
CorrectedChoices(trs, n, before) ==
    LET same == {j \in 1..(n - 1) : trs[j].data = trs[n].data}
    IN  IF same = {} THEN OutcomesOf[trs[n].data] ELSE {before[CHOOSE j \in same : TRUE]}

\* what the loop of line 215 can leave in the data of traces 1..n when it
\* stops at trace stop: traces before stop are corrected in place, the others
\* are untouched
RECURSIVE LoopData(_, _, _)
LoopData(trs, n, stop) ==
    IF n = 0 THEN {<<>>}
    ELSE UNION {{Append(before, d) :
                   d \in IF n < stop THEN CorrectedChoices(trs, n, before) ELSE {trs[n].data}} :
                before \in LoopData(trs, n - 1, stop)}

\* a table that keeps one row per station only
TableRowsDedup(trs, data) ==
    LET keep == {i \in 1..Len(trs) : \A j \in 1..(i - 1) : trs[j].station # trs[i].station}
        pick[k \in 0..Len(trs)] ==
            IF k = 0 THEN <<>>
            ELSE IF k \in keep THEN Append(pick[k - 1], RowOf(trs[k], data[k])) ELSE pick[k - 1]
    IN  pick[Len(trs)]

\* lines 214-235: one df.append per trace, in the order of the loop
TableRows(trs, data) == [i \in 1..Len(trs) |-> RowOf(trs[i], data[i])]

\* traceToAmps, lines 212-235
TraceToAmps ==
    /\ ttaOut.kind = "pending"
    /\ LET n == Len(traces)
           stop == FirstRaise(traces)
       IN  \E data \in LoopData(traces, n, stop) :
             /\ traces' = [i \in 1..n |-> [traces[i] EXCEPT !.data = data[i]]]
             /\ ttaOut' =
                  IF stop <= n
                  THEN [kind |-> "raise", rows |-> <<>>, at |-> stop,
                        err |-> IF MetadataRaises(traces[stop])
                                THEN "Could not get station coordinates"
                                ELSE "Must have a PolesAndZeros data structure"]
                  ELSE [kind |-> "table", rows |-> TableRows(traces, data),
                        at |-> 0, err |-> ""]
    /\ UNCHANGED <<catalogVars, codecVars, calib, given, pipeVars, peaksVars, queryVars, compVars, fetchVars>>

(******************************* _get_peaks ********************************)
\* _get_peaks called on one trace.  The units of a trace are whatever its
\* reader wrote in trace.stats: acceleration, velocity, or anything else
\* (here raw counts).  periods holds the column names of the periods asked
\* for: the default three, or 1.0 alone.
PkTraces ==
    [units : {"acc", "vel", "counts"}, data : RawSeries, periods : {PsaNames, {"psa10"}}]

\* the value None of a peak
Unavailable == [k |-> "None", a |-> 0, b |-> 1]

\* the keys of the dictionary of peaks (get_period_name, lines 17-26)
PeakKeys(periods) == {"pga", "pgv"} \cup periods

\* get_peak_spectrals, lines 45-61: simulate_seismometer (ObsPy) returns the
\* oscillator response dd, of which only max(dd) and min(dd) are used; the
\* response of an all-zero series is all zero
SpectralResponses(corrected) ==
    IF AllZero(corrected) THEN {[max |-> 0, min |-> 0]}
    ELSE {[max |-> 2, min |-> -5], [max |-> 3, min |-> -1], [max |-> 1, min |-> -1]}

\* lines 57-60, then line 489: the peak of a response, in %g
PeakSpectral(dd) ==
    Num((IF Abs(dd.max) >= Abs(dd.min) THEN Abs(dd.max) ELSE Abs(dd.min)) * 10000, 981)

\* _get_pgv, lines 507-518: every trace whose units are not 'vel' is
\* integrated as an acceleration
Integrates(units) == units # "vel"

\* _get_peaks, lines 465-505.  The acceleration branch fills the dictionary.
\* The other branch computes pgv, then line 500 reads the local pga, which
\* only the acceleration branch assigns: UnboundLocalError.
PeaksCall(trace, corrected, dd) ==
    IF trace.units = "acc"
    THEN [kind |-> "return",
          peaks |-> [key \in PeakKeys(trace.periods) |->
                       IF key \in PsaNames THEN PeakSpectral(dd[key])
                       ELSE get_peaks(trace.units, corrected)[key]],
          integrated |-> Integrates(trace.units), corrects |-> TRUE,
          pgv |-> get_pgv(trace.units, corrected), err |-> ""]
    ELSE [kind |-> "raise", peaks |-> <<>>,
          integrated |-> Integrates(trace.units), corrects |-> FALSE,
          pgv |-> get_pgv(trace.units, trace.data), err |-> "UnboundLocalError: pga"]

GetPeaks ==
    /\ pkOut.kind = "pending"
    /\ \E corrected \in IF pkTrace.units = "acc" THEN OutcomesOf[pkTrace.data] ELSE {pkTrace.data} :
         \E dd \in [pkTrace.periods -> SpectralResponses(corrected)] :
           /\ pkTrace' = [pkTrace EXCEPT !.data = corrected]
           /\ pkOut' = PeaksCall(pkTrace, corrected, dd)
    /\ UNCHANGED <<catalogVars, codecVars, reduceVars, pipeVars, queryVars, compVars, fetchVars>>

(***************************** get_comp_name *******************************)
\* The component string of a GeoNet header (geonet.py:100): Up, or a compass
\* letter, an angle of two digits and a compass letter, such as N57W.
CompStrings ==
    {<<"U", "p">>}
    \cup {<<ns, DigitChars[(a \div 10) + 1], DigitChars[(a % 10) + 1], ew>> :
            ns \in {"N", "S"}, a \in 0..90, ew \in {"E", "W"}}

\* compstr.lower().strip() == 'up', line 47
IsUp(compstr) == compstr \in {<<"U", "p">>, <<"u", "p">>, <<"U", "P">>, <<"u", "P">>}

\* int(compstr[1:-1]), line 50
CompAngle(compstr) == ParseNat(SubSeq(compstr, 2, Len(compstr) - 1), 0)

\* lines 51-58: the direction of a compass string
NewAngle(compstr) ==
    LET angle == CompAngle(compstr)
        first == compstr[1]
        last == compstr[Len(compstr)]
    IN  IF first = "N" /\ last = "E" THEN angle
        ELSE IF first = "N" /\ last = "W" THEN 360 - angle
        ELSE IF first = "S" /\ last = "E" THEN 180 - angle
        ELSE 180 + angle

\* get_comp_name, lines 47-63
get_comp_name(compstr) ==
    IF IsUp(compstr) THEN "--Z"
    ELSE LET newangle == NewAngle(compstr)
         IN  IF newangle >= 270 \/ newangle < 45 \/ (newangle > 135 /\ newangle <= 225)
             THEN "--N"
             ELSE "--E"

GetCompName ==
    /\ compOut.kind = "pending"
    /\ compOut' = [kind |-> "return", name |-> get_comp_name(compIn)]
    /\ UNCHANGED <<catalogVars, codecVars, reduceVars, pipeVars, peaksVars, queryVars, compIn, fetchVars>>

(************************** GeoNetRetriever.fetch ***************************)
\* The FTP server holds, under the folder of the event, entries in the order
\* ftp.nlst() lists them: directories Vol*, with or without a data directory,
\* and anything else.  A file name is its stem and its extension.
AllFiles ==
    <<[stem |-> "a", ext |-> "V1A"], [stem |-> "a", ext |-> "V2A"], [stem |-> "b", ext |-> "V1A"]>>

\* the entries of seq at the positions S, in order
Pick(seq, S) ==
    LET f[k \in 0..Len(seq)] ==
            IF k = 0 THEN <<>>
            ELSE IF k \in S THEN Append(f[k - 1], seq[k]) ELSE f[k - 1]
    IN  f[Len(seq)]

DataListings == {Pick(AllFiles, S) : S \in SUBSET (1..Len(AllFiles))}

FolderEntries ==
    [vol : {TRUE}, data : {TRUE}, files : DataListings]
    \cup {[vol |-> TRUE, data |-> FALSE, files |-> <<>>],
          [vol |-> FALSE, data |-> FALSE, files |-> <<>>]}

\* limit: None, or a number
NoLimit == [some |-> FALSE, n |-> 0]
Limits == {NoLimit} \cup [some : {TRUE}, n : 0..MaxLimit]

\* A datetime to the second: year, month, day and second of the day.
\* The seconds from 2000-01-01T00:00:00 to t, for the years 2000 to 2099, in
\* which every fourth year is a leap year; datetime subtraction (lines
\* 327-331) is the difference of these.
Seconds(t) ==
    LET y == t.year - 2000
        beforeMonth == <<0, 31, 59, 90, 120, 151, 181, 212, 243, 273, 304, 334>>
        leapDay == IF t.month > 2 /\ t.year % 4 = 0 THEN 1 ELSE 0
        days == 365 * y + ((y + 3) \div 4) + beforeMonth[t.month] + leapDay + t.day - 1
    IN  days * 86400 + t.sod

\* lines 234-237: the directory GEOBASE names for a time, its month written
\* by strftime('%m_%b')
MonthDir(t) ==
    LET names == <<"01_Jan", "02_Feb", "03_Mar", "04_Apr", "05_May", "06_Jun",
                   "07_Jul", "08_Aug", "09_Sep", "10_Oct", "11_Nov", "12_Dec">>
    IN  [year |-> t.year, month |-> names[t.month]]

\* origin times around the turn of a month, the turn of a year, and mid-month
Instants ==
    {[year |-> 2016, month |-> 11, day |-> 13, sod |-> 39776],
     [year |-> 2016, month |-> 10, day |-> 31, sod |-> 86390],
     [year |-> 2016, month |-> 11, day |-> 1, sod |-> 5],
     [year |-> 2015, month |-> 12, day |-> 31, sod |-> 86390],
     [year |-> 2016, month |-> 1, day |-> 1, sod |-> 5]}

\* timewindow=20, line 208
FetchWindow == 20

\* the time given to fetch and the time _check_catalog matched: line 334
\* keeps an event only when nsecs, dt.days*86400 + dt.seconds of the absolute
\* difference, is within timewindow
FetchTimes ==
    {w \in [etime : Instants, gtime : Instants] :
        Abs(Seconds(w.etime) - Seconds(w.gtime)) <= FetchWindow}

\* catalog: whether _check_catalog finds the event; folder: whether the
\* server holds the folder of the event, which it files under the year and
\* month of the folder's own timestamp.  Every event folder is fetched for
\* one pair of times, every pair of times on the short event folders.
FetchInputs ==
    LET midMonth == CHOOSE w \in FetchTimes : w.etime = w.gtime /\ w.etime.day = 13
    IN  [catalog : {"found"}, folder : BOOLEAN, limit : Limits,
         tree : SeqsUpTo(FolderEntries, MaxVolumes), when : {midMonth}]
        \cup [catalog : {"found"}, folder : BOOLEAN, limit : {NoLimit},
              tree : SeqsUpTo(FolderEntries, 1), when : FetchTimes]
        \cup {[catalog |-> "none", folder |-> FALSE, limit |-> NoLimit, tree |-> <<>>,
               when |-> midMonth]}

\* ftp.cwd(fname), line 250, in the directory entered at line 239: the
\* folder is found where the server filed it
FolderFound(in) == in.folder /\ MonthDir(in.when.etime) = MonthDir(in.when.gtime)

\* ftpfile.endswith('V1A'), line 270
EndsV1A(f) == f.ext = "V1A"

\* lines 280 and 284
LimitReached(datafiles, limit) == limit.some /\ Len(datafiles) >= limit.n

\* lines 269-281, when every transfer succeeds: _datafiles after the loop
\* over the listing of one data directory.  localfile is the file name under
\* os.getcwd(), the raw folder, whatever the volume.
RECURSIVE TakeFiles(_, _, _)
TakeFiles(files, datafiles, limit) ==
    IF files = <<>> THEN datafiles
    ELSE LET f == Head(files)
         IN  IF ~EndsV1A(f) \/ f \in Range(datafiles)
             THEN TakeFiles(Tail(files), datafiles, limit)
             ELSE IF LimitReached(Append(datafiles, f), limit)
                  THEN Append(datafiles, f)
                  ELSE TakeFiles(Tail(files), Append(datafiles, f), limit)

\* where an FTP call of one loop iteration can fail, given the files taken
\* the iteration would append: a cwd or nlst before the first transfer or
\* after the last one, or the transfer of file k + 1, which line 275 has
\* appended to _datafiles already
FailurePoints(taken) ==
    {[appended |-> 0, done |-> 0, dir |-> "volume"],
     [appended |-> Len(taken), done |-> Len(taken), dir |-> "data"]}
    \cup {[appended |-> k + 1, done |-> k, dir |-> "data"] : k \in 0..(Len(taken) - 1)}

\* The remote working directory is a level of the server's tree: the month
\* directory, the folder of the event, a volume, its data directory.
\* ftp.cwd('..'), lines 262, 282, 283
CwdUp(dir) ==
    CASE dir = "data" -> "volume"
      [] dir = "volume" -> "event"
      [] dir = "event" -> "month"
      [] OTHER -> dir

\* ftp.cwd(volume), ftp.cwd('data'), lines 260, 265
CwdDown(dir) ==
    CASE dir = "month" -> "event"
      [] dir = "event" -> "volume"
      [] dir = "volume" -> "data"
      [] OTHER -> dir

AfterVolumeNoReturn(dir, e) ==
    IF ~e.vol THEN dir
    ELSE IF ~e.data THEN CwdDown(dir)
    ELSE CwdUp(CwdUp(CwdDown(CwdDown(dir))))

\* lines 259-283: the remote working directory after one iteration in which
\* no FTP call fails.  The break of line 281 leaves the loop over the files
\* only, so lines 282-283 run whether or not the limit ended that loop.
AfterVolume(dir, e) ==
    IF ~e.vol THEN dir
    ELSE IF ~e.data THEN CwdUp(CwdDown(dir))
    ELSE CwdUp(CwdUp(CwdDown(CwdDown(dir))))

NoSession == [session |-> "none", dir |-> "none", path |-> [year |-> 0, month |-> ""]]
NotCalled ==
    [pc |-> "start", cwd |-> "start", entered |-> FALSE, datafiles |-> <<>>, done |-> {},
     idx |-> 0, failed |-> FALSE]
NoOutcome == [kind |-> "pending", err |-> ""]

\* lines 224-256: the catalog check, the FTP session, the raw folder, the
\* folder of the event and its listing
FetchOpen ==
    /\ local.pc = "start"
    /\ \/ /\ fetchIn.catalog = "none"
          /\ local' = [local EXCEPT !.pc = "raised"]
          /\ fetchOut' = [kind |-> "raise", err |-> "Could not find this event in the GeoNet earthquake catalog"]
          /\ UNCHANGED ftp
       \/ \* ftplib.FTP, login or cwd of the month directory fails
          /\ fetchIn.catalog = "found"
          /\ local' = [local EXCEPT !.pc = "raised"]
          /\ fetchOut' = [kind |-> "raise", err |-> "ftplib error"]
          /\ UNCHANGED ftp
       \/ /\ fetchIn.catalog = "found"
          /\ ~FolderFound(fetchIn)
          /\ ftp' = [session |-> "open", dir |-> "month", path |-> MonthDir(fetchIn.when.etime)]
          /\ local' = [local EXCEPT !.pc = "raised", !.cwd = "raw", !.entered = TRUE,
                                    !.datafiles = <<>>]
          /\ fetchOut' = [kind |-> "raise", err |-> "Could not find an FTP data folder"]
       \/ /\ fetchIn.catalog = "found"
          /\ FolderFound(fetchIn)
          /\ \E lists \in BOOLEAN, lost \in BOOLEAN :
               /\ lists => ~lost
               /\ ftp' = [session |-> IF lost THEN "lost" ELSE "open", dir |-> "event",
                          path |-> MonthDir(fetchIn.when.etime)]
               /\ local' = [local EXCEPT
                              !.pc = IF lists /\ fetchIn.tree # <<>> THEN "loop" ELSE "finally",
                              !.cwd = "raw", !.entered = TRUE, !.datafiles = <<>>,
                              !.idx = 1, !.failed = ~lists]
          /\ UNCHANGED fetchOut
    /\ UNCHANGED <<catalogVars, codecVars, reduceVars, pipeVars, peaksVars, queryVars, compVars, fetchIn>>

\* lines 258-285: one iteration of the loop over dirlist
FetchVolume ==
    /\ local.pc = "loop"
    /\ LET e == fetchIn.tree[local.idx]
           full == IF e.vol /\ e.data
                   THEN TakeFiles(e.files, local.datafiles, fetchIn.limit)
                   ELSE local.datafiles
           taken == SubSeq(full, Len(local.datafiles) + 1, Len(full))
           continues == e.vol /\ ~e.data
           breaks == ~continues /\ LimitReached(full, fetchIn.limit)
       IN  \/ /\ local' = [local EXCEPT
                             !.datafiles = full,
                             !.done = @ \cup Range(taken),
                             !.idx = @ + 1,
                             !.pc = IF breaks \/ local.idx = Len(fetchIn.tree)
                                    THEN "finally" ELSE "loop"]
              /\ ftp' = [ftp EXCEPT !.dir = AfterVolume(@, e)]
           \/ /\ e.vol
              /\ \E at \in FailurePoints(IF e.data THEN taken ELSE <<>>), lost \in BOOLEAN :
                   /\ local' = [local EXCEPT
                                  !.datafiles = @ \o SubSeq(taken, 1, at.appended),
                                  !.done = @ \cup Range(SubSeq(taken, 1, at.done)),
                                  !.pc = "finally", !.failed = TRUE]
                   /\ ftp' = [ftp EXCEPT !.session = IF lost THEN "lost" ELSE "open",
                                         !.dir = at.dir]
    /\ UNCHANGED <<catalogVars, codecVars, reduceVars, pipeVars, peaksVars, queryVars, compVars,
                   fetchIn, fetchOut>>

\* lines 285-290: the exception is dropped; ftp.quit() sends QUIT, which
\* raises when the connection is gone, and os.chdir(cwd) comes after it
FetchFinally ==
    /\ local.pc = "finally"
    /\ IF ftp.session = "lost"
       THEN /\ local' = [local EXCEPT !.pc = "raised"]
            /\ fetchOut' = [kind |-> "raise", err |-> "ftplib error"]
            /\ UNCHANGED ftp
       ELSE /\ ftp' = [ftp EXCEPT !.session = "closed"]
            /\ local' = [local EXCEPT !.pc = "returned", !.cwd = "start"]
            /\ fetchOut' = [kind |-> "return", err |-> ""]
    /\ UNCHANGED <<catalogVars, codecVars, reduceVars, pipeVars, peaksVars, queryVars, compVars, fetchIn>>

(******************************** getData **********************************)
LaterStages == {"readFiles", "traceToAmps", "ampsToXML", "saveToXML", "to_excel"}

PipeOutcome(stages, written, catalog, err) ==
    [kind |-> IF err = "" THEN "return" ELSE "raise", stages |-> stages,
     written |-> written, catalog |-> catalog, err |-> err]

\* lines 108-115, once fetch has returned: the stages after fetch.  Retriever
\* defines no saveToXML, and ampsToXML itself writes <source>_dat.xml
\* (renderToXML(outfile), line 311).
AfterFetch(in, catalog) ==
    LET pre == <<"setEventInfo", "fetch", "readFiles", "traceToAmps">>
    IN  IF in.retriever = "europe"
        THEN \* readFiles and traceToAmps do nothing and return None
             IF in.format = "xml"
             THEN PipeOutcome(Append(pre, "ampsToXML"), FALSE, catalog, "AttributeError: _xmlstr")
             ELSE PipeOutcome(Append(pre, "to_excel"), FALSE, catalog, "AttributeError: to_excel")
        ELSE IF ~in.reduces
             THEN PipeOutcome(pre, FALSE, catalog, "traceToAmps raised")
        ELSE IF in.format = "xml"
             THEN PipeOutcome(pre \o <<"ampsToXML", "saveToXML">>, TRUE, catalog,
                              "AttributeError: saveToXML")
             ELSE PipeOutcome(Append(pre, "to_excel"), TRUE, catalog, "")

\* GeoNetRetriever.fetch as getData sees it, lines 224-253: the catalog
\* check, then the FTP folder of the event
GeoNetGetData(in) ==
    LET catalog == check_catalog(in.geo)
        pre == <<"setEventInfo", "fetch">>
    IN  IF catalog.kind = "raise" THEN PipeOutcome(pre, FALSE, catalog, catalog.err)
        ELSE IF catalog.kind = "None"
             THEN PipeOutcome(pre, FALSE, catalog, "Could not find this event in the GeoNet earthquake catalog")
        ELSE IF ~in.folder
             THEN PipeOutcome(pre, FALSE, catalog, "Could not find an FTP data folder")
        ELSE AfterFetch(in, catalog)

\* EuropeRetriever.fetch as getData sees it, lines 111-113.  The call names
\* etime, which fetch does not bind (its parameter is time): where no global
\* of that name exists the call raises NameError.
EuropeGetData(in) ==
    LET catalog == get_emsc(in.emsc)
        pre == <<"setEventInfo", "fetch">>
    IN  IF ~in.etimeBound THEN PipeOutcome(pre, FALSE, Pending, "NameError: etime")
        ELSE IF catalog.kind = "raise" THEN PipeOutcome(pre, FALSE, catalog, catalog.err)
        ELSE AfterFetch(in, catalog)

getData(in) == IF in.retriever = "geonet" THEN GeoNetGetData(in) ELSE EuropeGetData(in)

NoEmsc == [transport |-> "fail", body |-> "none", features |-> <<>>]
NoGeo == [transport |-> "fail", lines |-> <<BlankLine>>, timewindow |-> 0, distwindow |-> 0]

PipeInputs ==
    [retriever : {"geonet"}, format : {"xml", "excel"}, geo : GeoRequests, emsc : {NoEmsc},
     folder : BOOLEAN, reduces : BOOLEAN, etimeBound : {TRUE}]
    \cup [retriever : {"europe"}, format : {"xml", "excel"}, geo : {NoGeo}, emsc : EmscResponses,
          folder : {TRUE}, reduces : {TRUE}, etimeBound : BOOLEAN]

GetData ==
    /\ pipeOut.kind = "pending"
    /\ pipeOut' = getData(pipeIn)
    /\ UNCHANGED <<catalogVars, codecVars, reduceVars, pipeIn, peaksVars, queryVars, compVars, fetchVars>>

(***************************** specifications ******************************)
\* a component that takes no part in a specification stays as constructed
IdleEmsc ==
    /\ emscIn = [transport |-> "fail", body |-> "none", features |-> <<>>]
    /\ emscOut = [kind |-> "idle", idx |-> 0, err |-> ""]
    /\ dsq = <<>>

IdleGeo ==
    /\ geoIn = [transport |-> "fail", lines |-> <<BlankLine>>,
                timewindow |-> 0, distwindow |-> 0]
    /\ geoOut = [kind |-> "idle", idx |-> 0, err |-> ""]

IdleReduce ==
    /\ calib = [parser |-> "None", resp |-> "None"]
    /\ traces = <<>>
    /\ given = <<>>
    /\ ttaOut = [kind |-> "idle", rows |-> <<>>, at |-> 0, err |-> ""]

IdlePipe ==
    /\ pipeIn = [retriever |-> "none", format |-> "xml", geo |-> NoGeo, emsc |-> NoEmsc,
                 folder |-> TRUE, reduces |-> TRUE, etimeBound |-> TRUE]
    /\ pipeOut = [kind |-> "idle", stages |-> <<>>, written |-> FALSE, catalog |-> Pending,
                  err |-> ""]

IdleCodec ==
    /\ amps = [cols |-> <<>>, rows |-> <<>>]
    /\ xmlstr = [kind |-> "idle", stations |-> <<>>]
    /\ decoded = [kind |-> "idle", cols |-> {}, rows |-> <<>>]

IdlePeaks ==
    /\ pkTrace = [units |-> "acc", data |-> <<>>, periods |-> {}]
    /\ pkOut = [kind |-> "idle", peaks |-> <<>>, integrated |-> FALSE, corrects |-> FALSE,
                pgv |-> Unavailable, err |-> ""]

IdleQuery ==
    /\ qryIn = [retriever |-> "none", timewindow |-> 0, catalog |-> {}]
    /\ qryOut = [kind |-> "idle", lo |-> 0, hi |-> 0, listed |-> {}, considered |-> {}]

IdleComp ==
    /\ compIn = <<>>
    /\ compOut = [kind |-> "idle", name |-> ""]

IdleFetch ==
    /\ fetchIn = [catalog |-> "none", folder |-> FALSE, limit |-> NoLimit, tree |-> <<>>]
    /\ ftp = NoSession
    /\ local = [NotCalled EXCEPT !.pc = "idle"]
    /\ fetchOut = [kind |-> "idle", err |-> ""]

\* get_emsc on every response
InitEmsc ==
    /\ emscIn \in EmscResponses
    /\ emscOut = Pending
    /\ dsq = <<>>
    /\ IdleGeo
    /\ IdleCodec
    /\ IdleReduce
    /\ IdlePipe
    /\ IdlePeaks
    /\ IdleQuery
    /\ IdleComp
    /\ IdleFetch

SpecEmsc == InitEmsc /\ [][GetEmsc]_vars

\* GeoNetRetriever._check_catalog on every response
InitGeo ==
    /\ geoIn \in GeoRequests
    /\ geoOut = Pending
    /\ IdleEmsc
    /\ IdleCodec
    /\ IdleReduce
    /\ IdlePipe
    /\ IdlePeaks
    /\ IdleQuery
    /\ IdleComp
    /\ IdleFetch

SpecGeo == InitGeo /\ [][CheckCatalog]_vars

\* both catalog matchers
SpecCatalog == (InitEmsc \/ InitGeo) /\ [][GetEmsc \/ CheckCatalog]_vars

\* both catalog matchers on short responses: none, one or a few candidates
InitEmscFew ==
    /\ emscIn \in EmscResponsesUpTo(MaxFew)
    /\ emscOut = Pending
    /\ dsq = <<>>
    /\ IdleGeo
    /\ IdleCodec
    /\ IdleReduce
    /\ IdlePipe
    /\ IdlePeaks
    /\ IdleQuery
    /\ IdleComp
    /\ IdleFetch

SpecSingle == (InitEmscFew \/ InitGeo) /\ [][GetEmsc \/ CheckCatalog]_vars

\* ampsToXML on every table, then xmlToAmps on the document
InitCodec ==
    /\ amps \in AmpTables
    /\ xmlstr = NoDoc
    /\ decoded = NoTable
    /\ IdleEmsc
    /\ IdleGeo
    /\ IdleReduce
    /\ IdlePipe
    /\ IdlePeaks
    /\ IdleQuery
    /\ IdleComp
    /\ IdleFetch

SpecCodec == InitCodec /\ [][AmpsToXML \/ XmlToAmps]_vars

\* traceToAmps on every list of traces, as constructed (setCalibration leaves
\* no parser and no RESP file)
InitReduce ==
    /\ calib = [parser |-> "None", resp |-> "None"]
    /\ traces \in SeqsUpTo(Traces, MaxTraces)
    /\ given = traces
    /\ ttaOut = [kind |-> "pending", rows |-> <<>>, at |-> 0, err |-> ""]
    /\ IdleEmsc
    /\ IdleGeo
    /\ IdleCodec
    /\ IdlePipe
    /\ IdlePeaks
    /\ IdleQuery
    /\ IdleComp
    /\ IdleFetch

SpecReduce == InitReduce /\ [][TraceToAmps]_vars

\* getData of a GeoNetRetriever and of a EuropeRetriever
InitPipe ==
    /\ pipeIn \in PipeInputs
    /\ pipeOut = [kind |-> "pending", stages |-> <<>>, written |-> FALSE, catalog |-> Pending,
                  err |-> ""]
    /\ IdleEmsc
    /\ IdleGeo
    /\ IdleCodec
    /\ IdleReduce
    /\ IdlePeaks
    /\ IdleQuery
    /\ IdleComp
    /\ IdleFetch

SpecPipe == InitPipe /\ [][GetData]_vars

\* _get_peaks on every trace
InitPeaks ==
    /\ pkTrace \in PkTraces
    /\ pkOut = [kind |-> "pending", peaks |-> <<>>, integrated |-> FALSE, corrects |-> FALSE,
                pgv |-> Unavailable, err |-> ""]
    /\ IdleEmsc
    /\ IdleGeo
    /\ IdleCodec
    /\ IdleReduce
    /\ IdlePipe
    /\ IdleQuery
    /\ IdleComp
    /\ IdleFetch

SpecPeaks == InitPeaks /\ [][GetPeaks]_vars

\* xmlToAmps on every document
InitDoc ==
    /\ amps = [cols |-> <<>>, rows |-> <<>>]
    /\ xmlstr \in Documents
    /\ decoded = NoTable
    /\ IdleEmsc
    /\ IdleGeo
    /\ IdleReduce
    /\ IdlePipe
    /\ IdlePeaks
    /\ IdleQuery
    /\ IdleComp
    /\ IdleFetch

SpecDoc == InitDoc /\ [][XmlToAmps]_vars

\* traceToAmps on lists of traces of two stations
InitOrder ==
    /\ calib = [parser |-> "None", resp |-> "None"]
    /\ traces \in SeqsUpTo(OrderTraces, MaxTraces)
    /\ given = traces
    /\ ttaOut = [kind |-> "pending", rows |-> <<>>, at |-> 0, err |-> ""]
    /\ IdleEmsc
    /\ IdleGeo
    /\ IdleCodec
    /\ IdlePipe
    /\ IdlePeaks
    /\ IdleQuery
    /\ IdleComp
    /\ IdleFetch

SpecOrder == InitOrder /\ [][TraceToAmps]_vars

\* the catalog search of both matchers, for every catalog and window
InitQuery ==
    /\ qryIn \in QueryInputs
    /\ qryOut = [kind |-> "pending", lo |-> 0, hi |-> 0, listed |-> {}, considered |-> {}]
    /\ IdleEmsc
    /\ IdleGeo
    /\ IdleCodec
    /\ IdleReduce
    /\ IdlePipe
    /\ IdlePeaks
    /\ IdleComp
    /\ IdleFetch

SpecQuery == InitQuery /\ [][CatalogQuery]_vars

\* GeoNetRetriever.fetch of a new retriever, on every event folder
InitFetch ==
    /\ fetchIn \in FetchInputs
    /\ ftp = NoSession
    /\ local = NotCalled
    /\ fetchOut = NoOutcome
    /\ IdleEmsc
    /\ IdleGeo
    /\ IdleCodec
    /\ IdleReduce
    /\ IdlePipe
    /\ IdlePeaks
    /\ IdleQuery
    /\ IdleComp

SpecFetch == InitFetch /\ [][FetchOpen \/ FetchVolume \/ FetchFinally]_vars

\* get_comp_name on every component string
InitComp ==
    /\ compIn \in CompStrings
    /\ compOut = [kind |-> "pending", name |-> ""]
    /\ IdleEmsc
    /\ IdleGeo
    /\ IdleCodec
    /\ IdleReduce
    /\ IdlePipe
    /\ IdlePeaks
    /\ IdleQuery
    /\ IdleFetch

SpecComp == InitComp /\ [][GetCompName]_vars

(******************************* claims ************************************)
\* the score of the specification: a component whose maximum over the
\* candidates is 0 counts as 0 for every candidate
GuardedNorm(x, m) == IF m = 0 THEN Num(0, 1) ELSE Num(x, m)

GuardedScore(features, i) ==
    LET n == Len(features)
        mt == MaxOf({Abs(features[j].off) : j \in 1..n})
        md == MaxOf({features[j].dd : j \in 1..n})
    IN  SqrtSumSq(GuardedNorm(Abs(features[i].off), mt), GuardedNorm(features[i].dd, md))

EmscCalled == emscOut.kind \notin {"pending", "idle"}
GeoCalled == geoOut.kind \notin {"pending", "idle"}
EmscMany == emscIn.transport = "ok" /\ emscIn.body = "json" /\ Len(emscIn.features) >= 2
EmscMaxDt == MaxOf({Abs(emscIn.features[j].off) : j \in 1..Len(emscIn.features)})
EmscMaxDd == MaxOf({emscIn.features[j].dd : j \in 1..Len(emscIn.features)})

\* C1: for two or more candidates get_emsc returns the candidate of minimum
\* score sqrt((dt/max dt)^2 + (dd/max dd)^2), the earliest one on ties.
C1_MinScoreEarliest ==
    (EmscCalled /\ EmscMany) =>
        /\ emscOut.kind = "event"
        /\ \A j \in 1..Len(emscIn.features) :
              ~FLess(GuardedScore(emscIn.features, j), GuardedScore(emscIn.features, emscOut.idx))
        /\ \A j \in 1..(emscOut.idx - 1) :
              FLess(GuardedScore(emscIn.features, emscOut.idx), GuardedScore(emscIn.features, j))

\* C2: when every candidate has time difference 0, or every candidate has
\* distance 0, no score is undefined and the returned candidate is minimal on
\* the remaining component.
C2_ZeroMaxGuarded ==
    (EmscCalled /\ EmscMany /\ (EmscMaxDt = 0 \/ EmscMaxDd = 0)) =>
        /\ \A i \in 1..Len(dsq) : dsq[i].k = "num"
        /\ emscOut.kind = "event"
        /\ \A j \in 1..Len(emscIn.features) :
              /\ EmscMaxDt = 0 => emscIn.features[emscOut.idx].dd <= emscIn.features[j].dd
              /\ EmscMaxDd = 0 =>
                    Abs(emscIn.features[emscOut.idx].off) <= Abs(emscIn.features[j].off)

\* a GeoNet response without any event line after the header
GeoListsNothing == \A i \in 2..Len(geoIn.lines) : geoIn.lines[i].k = "blank"

\* C5: a catalog query that yields no events returns NotFound (None from
\* get_emsc, (None, None) from _check_catalog), for an empty body and for a
\* well-formed response listing zero events.
C5_EmptyQueryNotFound ==
    /\ (EmscCalled /\ emscIn.transport = "ok"
            /\ (emscIn.body = "blank" \/ (emscIn.body = "json" /\ emscIn.features = <<>>)))
        => emscOut.kind = "None"
    /\ (GeoCalled /\ geoIn.transport = "ok" /\ GeoListsNothing) => geoOut.kind = "None"

\* the error a caller sees when the catalog cannot be reached
ReportsUnreachable(out) ==
    out.kind = "raise" /\ out.err \in {"URLError", "Could not access the GeoNet website"}

\* C6: "catalog unreachable" is reported exactly for a transport failure: a
\* transport failure is never NotFound, and a response that was received,
\* whatever its lines, is never reported as unreachable.
C6_UnreachableIffTransport ==
    /\ EmscCalled => (ReportsUnreachable(emscOut) <=> emscIn.transport = "fail")
    /\ GeoCalled => (ReportsUnreachable(geoOut) <=> geoIn.transport = "fail")

IdentityFields ==
    {"netid", "name", "code", "loc", "lat", "lon", "dist", "source", "insttype", "commtype"}

Decoded == decoded.kind \notin {"pending", "idle"}

\* the measure names with a recorded (numeric) value in some record
RecordedImts == {c \in Range(amps.cols) : \E i \in 1..Len(amps.rows) : amps.rows[i][c].t = "float"}

\* a decoded record reproduces an original one: identity fields and every
\* recorded measure value
Reproduces(dec, orig) ==
    /\ \A f \in IdentityFields : dec[f] = orig[f]
    /\ \A c \in Range(amps.cols) : orig[c].t = "float" => (c \in DOMAIN dec /\ dec[c] = orig[c])

\* C3: xmlToAmps(ampsToXML(table)) yields the records of the table, with
\* equal station identity fields and equal recorded measure values, and its
\* measure columns are the measure names that had recorded values.
C3_RoundTrip ==
    Decoded =>
        /\ decoded.kind = "table"
        /\ Len(decoded.rows) = Len(amps.rows)
        /\ \E pi \in Permutations(1..Len(amps.rows)) :
              \A i \in 1..Len(amps.rows) : Reproduces(decoded.rows[pi[i]], amps.rows[i])
        /\ decoded.cols = RecordedImts

CountWithCode(rows, code) == Cardinality({i \in 1..Len(rows) : rows[i]["code"] = code})

\* C4: the decoded table holds as many records of a station as were
\* encoded for it, each with its own recorded values.
C4_OneRecordPerEncodedRecord ==
    (Decoded /\ decoded.kind = "table") =>
        /\ \A i \in 1..Len(amps.rows) :
              CountWithCode(decoded.rows, amps.rows[i]["code"])
                  = CountWithCode(amps.rows, amps.rows[i]["code"])
        /\ \A i \in 1..Len(amps.rows) : \E j \in 1..Len(decoded.rows) :
              /\ decoded.rows[j]["code"] = amps.rows[i]["code"]
              /\ \A c \in Range(amps.cols) :
                    amps.rows[i][c].t = "float" => decoded.rows[j][c] = amps.rows[i][c]

PipeDone == pipeOut.kind \notin {"pending", "idle"}

TtaCalled == ttaOut.kind \notin {"pending", "idle"}

Resolvable == {i \in 1..Len(given) : given[i].coords}

\* C8: a trace whose station coordinates cannot be resolved produces no
\* record, and every other trace still produces its record: the call returns
\* a table with one record per resolvable trace.
C8_BadTraceIsolated ==
    (TtaCalled /\ \A i \in 1..Len(given) : given[i].units = "acc") =>
        /\ ttaOut.kind = "table"
        /\ Len(ttaOut.rows) = Cardinality(Resolvable)

\* equality of two fractions
SameValue(x, y) == x.k = "num" /\ y.k = "num" /\ x.a * y.b = y.a * x.b

\* C9: the pgv of an acceleration trace is the largest magnitude of the
\* once-integrated original, uncorrected series.
C9_PgvFromOriginal ==
    (TtaCalled /\ ttaOut.kind = "table") =>
        \A i \in 1..Len(ttaOut.rows) :
            SameValue(ttaOut.rows[i].peaks.pgv, Num(MaxAbs(Integrate2(given[i].data)), 2))

\* C10: after traceToAmps the samples and the unit tag of every input trace
\* are what they were before the call.
C10_TracesNotMutated ==
    TtaCalled => \A i \in 1..Len(given) :
        traces[i].data = given[i].data /\ traces[i].units = given[i].units

PkCalled == pkOut.kind \notin {"pending", "idle"}

\* C11: _get_peaks on a velocity trace completes without error and without
\* integrating; pgv is the largest magnitude of the raw samples, and pga and
\* every psa are reported unavailable
C11_VelocityPeaks ==
    (PkCalled /\ pkTrace.units = "vel") =>
        /\ pkOut.kind = "return"
        /\ ~pkOut.integrated
        /\ DOMAIN pkOut.peaks = PeakKeys(pkTrace.periods)
        /\ SameValue(pkOut.peaks["pgv"], Num(MaxAbs(pkTrace.data), 1))
        /\ \A key \in PeakKeys(pkTrace.periods) \ {"pgv"} : pkOut.peaks[key] = Unavailable

\* C12: a trace whose unit is neither acceleration nor velocity is rejected
\* with an error before anything is done to it: it is neither corrected nor
\* integrated, and no peaks come back
C12_UnknownUnitRejected ==
    (PkCalled /\ pkTrace.units \notin {"acc", "vel"}) =>
        /\ pkOut.kind = "raise"
        /\ pkOut.peaks = <<>>
        /\ ~pkOut.corrects
        /\ ~pkOut.integrated

\* the measures of station element st whose value texts all fail to parse
Unparseable(st) ==
    {m \in {st.comps[j].child : j \in 1..Len(st.comps)} :
        \A j \in 1..Len(st.comps) : st.comps[j].child = m => ~ParseFloat(st.comps[j].value).ok}

\* C13: xmlToAmps does not raise on a numeric attribute that fails to parse:
\* it returns one record per station element, in which every station float
\* and every measure value that does not parse is unavailable (NaN)
C13_BadNumberUnavailable ==
    Decoded =>
        /\ decoded.kind = "table"
        /\ Len(decoded.rows) = Len(xmlstr.stations)
        /\ \A i \in 1..Len(xmlstr.stations) :
              /\ \A f \in FloatFields :
                    ~ParseFloat(xmlstr.stations[i].atts[f]).ok => decoded.rows[i][f] = PNaN
              /\ \A m \in Unparseable(xmlstr.stations[i]) : decoded.rows[i][m] = PNaN

\* C14: the table traceToAmps returns has exactly one record per input trace,
\* in input order, nothing sorted and nothing merged: record i carries the
\* station of trace i and the peaks of trace i, also when another trace has
\* the same station
C14_OneRecordPerTrace ==
    (TtaCalled /\ ttaOut.kind = "table") =>
        /\ Len(ttaOut.rows) = Len(given)
        /\ \A i \in 1..Len(given) :
              /\ ttaOut.rows[i].station = given[i].station
              /\ ttaOut.rows[i].peaks.pga = Num(MaxAbs(traces[i].data) * 10000, 981)

\* a table of three records returned for stations S2, S1, S2
C14_RepeatedStation ==
    /\ ttaOut.kind = "table"
    /\ Len(given) = 3
    /\ given[1].station = "S2" /\ given[2].station = "S1" /\ given[3].station = "S2"
    /\ given[1].data # given[3].data

\* the response holds exactly one catalog event
EmscSingle == emscIn.transport = "ok" /\ emscIn.body = "json" /\ Len(emscIn.features) = 1
GeoSingle ==
    /\ geoIn.transport = "ok"
    /\ Len(geoIn.lines) >= 2
    /\ geoIn.lines[2].k = "ev"
    /\ Len(geoIn.lines) >= 3 => geoIn.lines[3].k = "blank"

QueryDone == qryOut.kind = "done"

\* C16: the catalog query asks for exactly report time - timewindow to report
\* time + timewindow, so every event the matcher can return lies within
\* timewindow of the report time and every cataloged event within timewindow
\* is considered
C16_QueryIsCallerWindow ==
    QueryDone =>
        /\ qryOut.lo = -qryIn.timewindow
        /\ qryOut.hi = qryIn.timewindow
        /\ \A e \in qryOut.considered : Abs(e) <= qryIn.timewindow
        /\ \A e \in qryIn.catalog : Abs(e) <= qryIn.timewindow => e \in qryOut.considered

FetchExited == local.pc \in {"returned", "raised"}

\* the distinct '.V1A' file names the data directories of the Vol* entries offer
Offered ==
    UNION {{f \in Range(fetchIn.tree[i].files) : EndsV1A(f)} :
             i \in {j \in 1..Len(fetchIn.tree) : fetchIn.tree[j].vol /\ fetchIn.tree[j].data}}

\* C17: after fetch with limit = n, getDataFiles() holds at most n entries,
\* exactly n when the event folder offers at least n '.V1A' files and nothing
\* fails; every entry ends in 'V1A' and none appears twice
C17_AtMostLimit ==
    (FetchExited /\ fetchIn.limit.some) =>
        /\ Len(local.datafiles) <= fetchIn.limit.n
        /\ (/\ fetchOut.kind = "return"
            /\ ~local.failed
            /\ Cardinality(Offered) >= fetchIn.limit.n) => Len(local.datafiles) = fetchIn.limit.n
        /\ \A i \in 1..Len(local.datafiles) : EndsV1A(local.datafiles[i])
        /\ \A i, j \in 1..Len(local.datafiles) : local.datafiles[i] = local.datafiles[j] => i = j

\* C20: on every exit of fetch after os.chdir(self._rawfolder), the working
\* directory is the one the call started in and the FTP session is closed
C20_CwdRestored ==
    (FetchExited /\ local.entered) => (local.cwd = "start" /\ ftp.session = "closed")

\* the lines of the response that are catalog events: those after the header
\* line and before the first empty line
GeoEventLines ==
    {i \in 2..Len(geoIn.lines) : \A j \in 2..i : geoIn.lines[j].k # "blank"}

GeoWellFormed ==
    geoIn.transport = "ok" /\ \A i \in GeoEventLines : geoIn.lines[i].k = "ev"

GeoQualifying ==
    {i \in GeoEventLines :
        Abs(geoIn.lines[i].off) <= geoIn.timewindow /\ geoIn.lines[i].dd < geoIn.distwindow}

\* nsecs^2 + dd_km^2, the square of the score
GeoScoreSq(i) == geoIn.lines[i].off * geoIn.lines[i].off + geoIn.lines[i].dd * geoIn.lines[i].dd

\* C18: _check_catalog considers only the catalog events at most timewindow
\* seconds and less than distwindow km from the report; it returns the one of
\* minimum sqrt(nsecs^2 + dd_km^2), the first in catalog order on ties, and
\* (None, None) when no event qualifies
C18_NearestQualifying ==
    (GeoCalled /\ GeoWellFormed) =>
        IF GeoQualifying = {} THEN geoOut = Returns("None", 0)
        ELSE /\ geoOut.kind = "event"
             /\ geoOut.idx \in GeoQualifying
             /\ \A j \in GeoQualifying : GeoScoreSq(geoOut.idx) <= GeoScoreSq(j)
             /\ \A j \in GeoQualifying : j < geoOut.idx => GeoScoreSq(geoOut.idx) < GeoScoreSq(j)

\* two different events tie for the minimum and the first is returned
C18_TieFirst ==
    /\ GeoCalled
    /\ GeoWellFormed
    /\ GeoQualifying = {2, 3}
    /\ geoIn.lines[2] # geoIn.lines[3]
    /\ GeoScoreSq(2) = GeoScoreSq(3)
    /\ geoOut = Returns("event", 2)

\* the direction the docstring of get_comp_name gives a compass string: N..E
\* the angle, N..W 360 less the angle, S..E 180 less the angle, S..W 180 plus
\* the angle
DocDirection(compstr) ==
    LET angle == CompAngle(compstr)
    IN  CASE compstr[1] = "N" /\ compstr[4] = "E" -> angle
          [] compstr[1] = "N" /\ compstr[4] = "W" -> 360 - angle
          [] compstr[1] = "S" /\ compstr[4] = "E" -> 180 - angle
          [] compstr[1] = "S" /\ compstr[4] = "W" -> 180 + angle

\* C19: get_comp_name gives '--Z' for Up; a direction between 315 and 360,
\* between 0 and 45 or between 135 and 225 gives '--N', every other direction
\* '--E'
C19_ComponentName ==
    compOut.kind = "return" =>
        IF compIn = <<"U", "p">> THEN compOut.name = "--Z"
        ELSE LET d == DocDirection(compIn)
             IN  compOut.name =
                   IF (315 <= d /\ d <= 360) \/ (0 <= d /\ d <= 45) \/ (135 <= d /\ d <= 225)
                   THEN "--N"
                   ELSE "--E"

\* the measures station element st has a comp for
OwnMeasures(st) == {st.comps[j].child : j \in 1..Len(st.comps)}

\* C21: the measures of each record xmlToAmps returns come only from that
\* station's own comp elements: a measure the station has no comp for is
\* unavailable (NaN) in its record, whatever an earlier station recorded
C21_OwnMeasuresOnly ==
    (Decoded /\ decoded.kind = "table") =>
        \A i \in 1..Len(decoded.rows) :
            \A m \in decoded.cols \ OwnMeasures(xmlstr.stations[i]) :
                decoded.rows[i][m] = PNaN

\* C22: after fetch returns, every entry of getDataFiles() names a local
\* file whose transfer completed: a file whose download failed is not among
\* the data files
C22_DataFilesComplete ==
    fetchOut.kind = "return" => Range(local.datafiles) \subseteq local.done

\* the loop over dirlist is at the start of an iteration, or was left with
\* no FTP call having failed (end of the listing, or the limit)
AtLoopBoundary == local.pc = "loop" \/ (local.pc = "finally" /\ ~local.failed)

\* C23: at the start of every iteration of the loop over the listing of the
\* event folder, the remote working directory of the FTP session is the
\* event folder, whichever path the previous iteration took; it is still the
\* event folder when the loop ends without a failure
C23_LoopAtEventFolder ==
    AtLoopBoundary => (ftp.session = "open" /\ ftp.dir = "event")

\* the second iteration starts after a volume with no data directory
C23_AfterVolumeWithoutData ==
    /\ local.pc = "loop"
    /\ local.idx = 2
    /\ fetchIn.tree[1].vol
    /\ ~fetchIn.tree[1].data
    /\ ftp.dir = "event"

\* C24: the year/month directory fetch searches on the server is the one of
\* the time that names the event folder (the matched catalog time), for every
\* input time and matched time within the time window, also across the turn
\* of a month or a year
C24_MonthOfFolderTime ==
    ftp.session # "none" => ftp.path = MonthDir(fetchIn.when.gtime)

====
